---- MODULE Spec2Model ----
(***************************************************************************)
(* Model of the symptom-text generators of Mima_LLM.                       *)
(*                                                                         *)
(*   data_generator_without_LLM.py : SymptomDataGenerator (template based) *)
(*   tentative1.py                 : PromptBuilder, LLMWrapper,            *)
(*                                   DialogueGenerator (LLM based)         *)
(*                                                                         *)
(* In the generator, which only formats and joins them, Python strings are *)
(* TLA+ strings.  In the dialogue part, where str.strip() looks at single  *)
(* characters, a Python string is the sequence of its code points (Len, \o *)
(* and SubSeq act on it as Python's len, + and slices); Text(s) is the     *)
(* string a literal s denotes.  A method is an operator from the object    *)
(* (self), its arguments and the values the random source hands out to a   *)
(* record [self, ret, exc]: the object after the call, the value returned  *)
(* and the exception raised ("None" when the call returns).                *)
(***************************************************************************)
EXTENDS Integers, Sequences, FiniteSets, TLC

VARIABLES
    generator,    \* the SymptomDataGenerator object: its three fields
    config0,      \* the lists the caller handed to __init__ (never written)
    op,           \* the last generator method the caller called
    ret,          \* what that call returned (NoValue when it raised)
    exc,          \* the exception it raised ("None" when it returned)
    pc,           \* "idle", "comprehension" (inside generate_dataset), "returned"
    num_samples,  \* argument of the generate_dataset call in progress / last
    acc,          \* the list the comprehension of generate_dataset is building
    draws,        \* symptoms drawn from symptom_list by the call in progress / last
    dlg           \* the generate_dialogue call in progress: see DialogueIdle

gen_vars == <<generator, config0, op, ret, exc, pc, num_samples, acc, draws>>
vars == <<generator, config0, op, ret, exc, pc, num_samples, acc, draws, dlg>>

(***************************************************************************)
(* Bounds of the model.                                                    *)
(***************************************************************************)
MaxSamples == 2      \* generate_dataset is called with num_samples <= MaxSamples
MaxRecords == 1      \* the same, on the configurations of RecordConfigs

(***************************************************************************)
(* Python values and built-ins.                                            *)
(***************************************************************************)
\* A value that is a str or None (body_part): the str s is <<s>> and None is
\* <<>>, so that None differs from every str, the str "None" as well.
None == <<>>

Str(s) == <<s>>

\* f"{v}" of a str-or-None value: None is rendered "None".
Format(v) == IF v = None THEN "None" ELSE v[1]

\* What ret holds when no value was returned: the call raised, or was not
\* made.
NoValue == {}

\* What a str local holds before it is assigned; assigned the str s, it
\* holds Str(s).
Unassigned == <<>>

Range(seq) == {seq[i] : i \in 1..Len(seq)}

\* bool(v) of a str-or-None value: None and "" are falsy.
Truthy(v) == v # None /\ v[1] # ""

\* The positions random.choice(seq) may pick; 0 stands for the draw from an
\* empty sequence, which raises IndexError.
ChoiceIndices(seq) == IF Len(seq) = 0 THEN {0} ELSE 1..Len(seq)

\* The values random.randint(a, b) may return: a <= N <= b.
randint(a, b) == a..b

(***************************************************************************)
(* SymptomDataGenerator (data_generator_without_LLM.py).                   *)
(***************************************************************************)
\* __init__: the generator keeps references to the caller's three values.
SymptomDataGenerator(symptom_list, body_parts, demographics) ==
    [symptom_list |-> symptom_list,
     body_parts   |-> body_parts,
     demographics |-> demographics]

\* The literal list of generate_metadata's severity draw.
Severities == <<"mild", "moderate", "severe">>

\* The literals of random.randint(1, 12).
MinWeeks == 1
MaxWeeks == 12

\* What the random source hands to one generate_metadata call: a position in
\* each of the three lists and the randint value.
MetadataDraws(self) ==
    [age      : ChoiceIndices(self.demographics.age),
     gender   : ChoiceIndices(self.demographics.gender),
     severity : ChoiceIndices(Severities),
     weeks    : randint(MinWeeks, MaxWeeks)]

\* The same with a duration rendered one week too long.
generate_metadata_WeeksOff(self, d) ==
    IF d.age = 0 \/ d.gender = 0
    THEN [self |-> self, ret |-> NoValue, exc |-> "IndexError"]
    ELSE [self |-> self,
          ret  |-> [age      |-> self.demographics.age[d.age],
                    gender   |-> self.demographics.gender[d.gender],
                    severity |-> Severities[d.severity],
                    duration |-> ToString(d.weeks + 1) \o " weeks"],
          exc  |-> "None"]

\* generate_metadata: random.choice of an empty age or gender list raises
\* IndexError; otherwise the dict of the four draws.
generate_metadata(self, d) ==
    IF d.age = 0 \/ d.gender = 0
    THEN [self |-> self, ret |-> NoValue, exc |-> "IndexError"]
    ELSE [self |-> self,
          ret  |-> [age      |-> self.demographics.age[d.age],
                    gender   |-> self.demographics.gender[d.gender],
                    severity |-> Severities[d.severity],
                    duration |-> ToString(d.weeks) \o " weeks"],
          exc  |-> "None"]

\* The four f-strings of generate_description, in the order of the list.
Templates(symptom, body_part, metadata) ==
    << "I have been experiencing " \o symptom \o " in my " \o Format(body_part)
           \o " for " \o metadata.duration \o ". It's " \o metadata.severity \o ".",
       "My " \o Format(body_part) \o " has been " \o symptom \o " for "
           \o metadata.duration \o ". The doctor said it's " \o metadata.severity \o ".",
       "I feel " \o symptom \o " almost every day for " \o metadata.duration \o ".",
       "For the past " \o metadata.duration \o ", I noticed " \o symptom
           \o " in my " \o Format(body_part) \o ". It's been " \o metadata.severity \o "." >>

\* generate_description: a truthy body_part takes random.choice(templates),
\* position t; otherwise the single sentence without a body part.
generate_description(symptom, body_part, metadata, t) ==
    IF Truthy(body_part)
    THEN Templates(symptom, body_part, metadata)[t]
    ELSE "I have been feeling " \o symptom \o " for " \o metadata.duration
             \o ". It's " \o metadata.severity \o "."

\* What the random source hands to one generate_symptom call: a position in
\* symptom_list, a position in body_parts when the symptom is not "fatigue",
\* the metadata draws, and a position in templates when body_part is truthy.
\* 0 stands for a draw that is not made (or made from an empty list).
BodyPartDraws(self, s) ==
    IF s = 0 THEN {0}
    ELSE IF self.symptom_list[s] = "fatigue" THEN {0}
    ELSE ChoiceIndices(self.body_parts)

TemplateDraws(self, b) ==
    IF b = 0 THEN {0}
    ELSE IF Truthy(Str(self.body_parts[b])) THEN 1..4
    ELSE {0}

SymptomDraws(self) ==
    UNION { UNION { [symptom   : {s},
                     body_part : {b},
                     metadata  : MetadataDraws(self),
                     template  : TemplateDraws(self, b)]
                    : b \in BodyPartDraws(self, s) }
            : s \in ChoiceIndices(self.symptom_list) }

\* seq without its element at position i (list.pop(i)).
Without(seq, i) == [j \in 1..(Len(seq) - 1) |-> IF j < i THEN seq[j] ELSE seq[j + 1]]

\* generate_symptom taking the symptom out of symptom_list as it draws it.
generate_symptom_Pop(self, d) ==
    IF d.symptom = 0
    THEN [self |-> self, ret |-> NoValue, exc |-> "IndexError"]
    ELSE
      LET symptom == self.symptom_list[d.symptom]
          popped == [self EXCEPT !.symptom_list = Without(@, d.symptom)]
      IN
      IF symptom # "fatigue" /\ d.body_part = 0
      THEN [self |-> popped, ret |-> NoValue, exc |-> "IndexError"]
      ELSE
        LET body_part == IF symptom # "fatigue"
                         THEN Str(self.body_parts[d.body_part]) ELSE None
            m == generate_metadata(popped, d.metadata)
        IN  IF m.exc # "None"
            THEN [self |-> m.self, ret |-> NoValue, exc |-> m.exc]
            ELSE [self |-> m.self,
                  ret  |-> [text     |-> generate_description(
                                             symptom, body_part, m.ret, d.template),
                            label    |-> symptom,
                            metadata |-> m.ret],
                  exc  |-> "None"]

\* generate_symptom, by its four statements.  body_parts is drawn from only
\* when the symptom is not "fatigue".
generate_symptom(self, d) ==
    IF d.symptom = 0
    THEN [self |-> self, ret |-> NoValue, exc |-> "IndexError"]
    ELSE
      LET symptom == self.symptom_list[d.symptom] IN
      IF symptom # "fatigue" /\ d.body_part = 0
      THEN [self |-> self, ret |-> NoValue, exc |-> "IndexError"]
      ELSE
        LET body_part == IF symptom # "fatigue"
                         THEN Str(self.body_parts[d.body_part]) ELSE None
            m == generate_metadata(self, d.metadata)
        IN  IF m.exc # "None"
            THEN [self |-> m.self, ret |-> NoValue, exc |-> m.exc]
            ELSE [self |-> m.self,
                  ret  |-> [text     |-> generate_description(
                                             symptom, body_part, m.ret, d.template),
                            label    |-> symptom,
                            metadata |-> m.ret],
                  exc  |-> "None"]

(***************************************************************************)
(* The generator's callers: one action per public method.  A call that     *)
(* raises leaves ret = NoValue and names the exception in exc.             *)
(***************************************************************************)
\* The configurations a run starts from: the module-level lists of the
\* script cut down to two entries, and the degenerate ones (an empty list).
SymptomLists == {<<>>, <<"fatigue">>, <<"fatigue", "pain">>, <<"lump", "fatigue">>}
BodyPartLists == {<<>>, <<"neck">>, <<"neck", "chest">>}
DemographicsChoices ==
    {[age |-> <<"20-30", "30-40">>, gender |-> <<"male", "female">>],
     [age |-> <<"70+">>, gender |-> <<>>]}

\* The configurations generate_dataset is run on.
DatasetConfigs ==
    {<<(<<>>), <<"neck">>, [age |-> <<"20-30">>, gender |-> <<"male">>]>>,
     <<(<<"fatigue">>), (<<>>), [age |-> <<"20-30">>, gender |-> <<"male">>]>>,
     <<(<<"fatigue", "pain">>), (<<>>), [age |-> <<"20-30">>, gender |-> <<"male">>]>>,
     <<(<<"fatigue">>), <<"neck">>, [age |-> <<"20-30", "30-40">>, gender |-> <<"male">>]>>}

\* The configurations whose records are examined one by one.
RecordConfigs ==
    {<<(<<>>), <<"neck">>, [age |-> <<"20-30">>, gender |-> <<"male">>]>>,
     <<(<<"lump", "fatigue">>), <<"neck">>,
       [age |-> <<"20-30", "30-40">>, gender |-> <<"male", "female">>]>>,
     <<(<<"fatigue", "pain">>), (<<>>),
       [age |-> <<"20-30", "30-40">>, gender |-> <<"male", "female">>]>>,
     <<(<<"fatigue">>), <<"neck", "chest">>, [age |-> <<"70+">>, gender |-> <<>>]>>}

(***************************************************************************)
(* tentative1.py: PromptBuilder, LLMWrapper, DialogueGenerator.            *)
(***************************************************************************)
MaxSymptoms == 3     \* generate_dialogue is called with max_symptoms <= MaxSymptoms

Min(a, b) == IF a <= b THEN a ELSE b

\* The characters U+0020 to U+005F, U+0061 to U+007E and U+00C0 to U+00FF,
\* in the order of their code points.
Ascii == " !\"#$%&'()*+,-./0123456789:;<=>?@ABCDEFGHIJKLMNOPQRSTUVWXYZ[\\]^_"
Lower == "abcdefghijklmnopqrstuvwxyz{|}~"
Accented == "ÀÁÂÃÄÅÆÇÈÉÊËÌÍÎÏÐÑÒÓÔÕÖ×ØÙÚÛÜÝÞßàáâãäåæçèéêëìíîïðñòóôõö÷øùúûüýþÿ"

\* <<c, ord(c)>> for the characters the literals of the model are written
\* with.
CodePoints ==
    {<<SubSeq(Ascii, i, i), 31 + i>> : i \in 1..Len(Ascii)}
        \cup {<<SubSeq(Lower, i, i), 96 + i>> : i \in 1..Len(Lower)}
        \cup {<<SubSeq(Accented, i, i), 191 + i>> : i \in 1..Len(Accented)}
        \cup {<<"\t", 9>>, <<"\n", 10>>, <<"\f", 12>>, <<"\r", 13>>}

\* ord(c)
ord(c) == (CHOOSE p \in CodePoints : p[1] = c)[2]

\* The Python string of the literal s: its code points.
Text(s) == [i \in 1..Len(s) |-> ord(SubSeq(s, i, i))]

\* sep.join(seq)
RECURSIVE Join(_, _)
Join(seq, sep) ==
    IF Len(seq) = 0 THEN <<>>
    ELSE IF Len(seq) = 1 THEN seq[1]
    ELSE seq[1] \o sep \o Join(Tail(seq), sep)

\* s[n:] for n >= 0: empty when n reaches past the end of s.
SliceFrom(s, n) == IF n >= Len(s) THEN <<>> ELSE SubSeq(s, n + 1, Len(s))

\* s[:n] for n >= 0
SliceTo(s, n) == IF n >= Len(s) THEN s ELSE SubSeq(s, 1, n)

\* The characters str.strip() removes, those c with c.isspace(): U+0009 to
\* U+000D, U+001C to U+001F, U+0020, U+0085, U+00A0, U+1680, U+2000 to
\* U+200A, U+2028, U+2029, U+202F, U+205F and U+3000.
Whitespace ==
    (9..13) \cup (28..31) \cup {32, 133, 160, 5760}
        \cup (8192..8202) \cup {8232, 8233, 8239, 8287, 12288}

RECURSIVE lstrip(_)
lstrip(s) ==
    IF Len(s) > 0 /\ s[1] \in Whitespace THEN lstrip(Tail(s)) ELSE s

RECURSIVE rstrip(_)
rstrip(s) ==
    IF Len(s) > 0 /\ s[Len(s)] \in Whitespace
    THEN rstrip(SubSeq(s, 1, Len(s) - 1))
    ELSE s

\* s.strip()
strip(s) == rstrip(lstrip(s))

\* The text of build_prompt's f-string around its three fields, and the
\* spelling clause.
PromptHead ==
    Text("\n        Tu es un patient malade qui décrit ses symptômes au médecin. Les symptômes que tu décris et dont tu es malade sont : ")
PromptStyle ==
    Text(".\n        Le Style de langage que tu adoptes dans ta description est le suivant: ")
PromptTone ==
    Text(". \n        Le Ton que tu prends est le suivant : ")
PromptEnd ==
    Text(".\n        ")
SpellingClause ==
    Text(" Inclure des fautes d'orthographe dans la réponse.")

\* PromptBuilder.build_prompt: the f-string, then the spelling clause.  No
\* argument is checked: an empty symptoms list joins to the empty string.
build_prompt(symptoms, language_style, spelling_errors, tone) ==
    LET prompt ==
          PromptHead \o Join(symptoms, Text(", "))
          \o PromptStyle \o language_style
          \o PromptTone \o tone
          \o PromptEnd
    IN  [ret |-> IF spelling_errors THEN prompt \o SpellingClause ELSE prompt,
         exc |-> "None"]

\* The end of generate_text with only the left side trimmed.
generate_text_LStrip(prompt, generated_text) ==
    lstrip(SliceFrom(generated_text, Len(prompt)))

\* The end of LLMWrapper.generate_text, from the decoded output on:
\* generated_text[len(prompt):].strip()
generate_text(prompt, generated_text) ==
    strip(SliceFrom(generated_text, Len(prompt)))

\* k = min(max_symptoms, len(symptom_pool))
SampleSize(symptom_pool, max_symptoms) == Min(max_symptoms, Len(symptom_pool))

\* Draws with replacement: any k positions.
SampleDraws_WithReplacement(n, k) == [1..k -> 1..n]

\* What the random source hands to random.sample(population, k) for a
\* population of n: k positions, no position twice.
SampleDraws(n, k) ==
    {idx \in [1..k -> 1..n] : \A i, j \in 1..k : idx[i] = idx[j] => i = j}

\* random.sample(population, k): ValueError when k is negative or larger
\* than the population, otherwise the elements at the drawn positions.
random_sample(population, k, idx) ==
    IF k < 0 \/ k > Len(population)
    THEN [ret |-> <<>>, exc |-> "ValueError"]
    ELSE [ret |-> [i \in 1..k |-> population[idx[i]]], exc |-> "None"]

\* What the model's continuation may be.
Continuations ==
    {Text(""), Text(" "), Text("Aïe."), Text(" Bonjour docteur, j'ai mal.\n"),
     Text("\n\tJ'ai de la fièvre. \r\n"),
     <<8239>> \o Text("Aïe.") \o <<8239>>,
     <<11>> \o Text("J'ai mal.") \o <<28>>,
     Text(" Bonjour docteur") \o <<133, 5760, 12288>>,
     <<8232, 160>> \o Text("Ça va") \o <<8239>> \o Text("?") \o <<8201, 8233>>}

\* What tokenizer.decode(outputs[0]) may be for a prompt: the prompt and a
\* continuation (causal generation), or a text that does not repeat the
\* prompt (cut short, or changed by the round trip through the tokenizer).
DecodedTexts(prompt) ==
    {prompt \o c : c \in Continuations}
        \cup {Text(""), Text("Bonjour."), SliceTo(prompt, Len(prompt) - 1),
              strip(prompt) \o Text(" Oui.  ")}

\* The call of generate_dialogue before it is made.
DialogueIdle ==
    [pc |-> "START", symptom_pool |-> <<>>, max_symptoms |-> 0,
     language_style |-> Text(""), spelling_errors |-> FALSE, tone |-> Text(""),
     symptoms |-> <<>>, prompt |-> Unassigned, oracle_input |-> Unassigned,
     oracle_calls |-> 0, generated_text |-> Unassigned, ret |-> Unassigned,
     exc |-> "None"]

\* The arguments generate_dialogue is called with.
SymptomPools ==
    {<<>>, <<Text("fatigue")>>, <<Text("toux"), Text("toux")>>,
     <<Text("fièvre"), Text("toux"), Text("vertiges")>>}
LanguageStyles == {Text("courant"), Text("familier")}
Tones == {Text("neutre")}

InitWith(symptom_list, body_parts, demographics) ==
    /\ generator = SymptomDataGenerator(symptom_list, body_parts, demographics)
    /\ config0 = <<symptom_list, body_parts, demographics>>
    /\ op = "__init__"
    /\ ret = NoValue
    /\ exc = "None"
    /\ pc = "idle"
    /\ num_samples = 0
    /\ acc = <<>>
    /\ draws = 0
    /\ dlg = DialogueIdle

Init ==
    \E s \in SymptomLists, b \in BodyPartLists, dm \in DemographicsChoices :
        InitWith(s, b, dm)

DatasetInit ==
    \E c \in DatasetConfigs : InitWith(c[1], c[2], c[3])

RecordInit ==
    \E c \in RecordConfigs : InitWith(c[1], c[2], c[3])

\* generator.generate_metadata()
GenerateMetadata ==
    /\ pc = "idle"
    /\ \E d \in MetadataDraws(generator) :
         LET r == generate_metadata(generator, d) IN
         /\ generator' = r.self
         /\ ret' = r.ret
         /\ exc' = r.exc
    /\ op' = "generate_metadata"
    /\ pc' = "returned"
    /\ draws' = 0
    /\ UNCHANGED <<config0, num_samples, acc, dlg>>

\* generator.generate_symptom()
GenerateSymptom ==
    /\ pc = "idle"
    /\ \E d \in SymptomDraws(generator) :
         LET r == generate_symptom(generator, d) IN
         /\ generator' = r.self
         /\ ret' = r.ret
         /\ exc' = r.exc
    /\ op' = "generate_symptom"
    /\ pc' = "returned"
    /\ draws' = 1
    /\ UNCHANGED <<config0, num_samples, acc, dlg>>

\* range(num_samples) still has a turn to give after `done` turns.
RangeHasNext_OneMore(done, n) == done <= n

RangeHasNext(done, n) == done < n

\* generator.generate_dataset(n): the list comprehension starts empty; with
\* nothing in range(n) the empty list is returned at once.
GenerateDataset(max) ==
    /\ pc = "idle"
    /\ \E n \in -1..max :
         /\ num_samples' = n
         /\ IF RangeHasNext(0, n)
            THEN pc' = "comprehension" /\ ret' = NoValue
            ELSE pc' = "returned" /\ ret' = <<>>
    /\ op' = "generate_dataset"
    /\ acc' = <<>>
    /\ draws' = 0
    /\ exc' = "None"
    /\ UNCHANGED <<generator, config0, dlg>>

GenerateDatasetCall == GenerateDataset(MaxSamples)

GenerateDatasetOfFew == GenerateDataset(MaxRecords)

\* One turn of `for _ in range(num_samples)`: the value of generate_symptom()
\* is appended, and the list is returned when that was the last turn; an
\* exception of generate_symptom() ends the comprehension and the call.
GenerateDatasetIter ==
    /\ pc = "comprehension"
    /\ RangeHasNext(Len(acc), num_samples)
    /\ \E d \in SymptomDraws(generator) :
         LET r == generate_symptom(generator, d) IN
         /\ generator' = r.self
         /\ IF r.exc # "None"
            THEN /\ acc' = <<>>
                 /\ pc' = "returned"
                 /\ ret' = NoValue
                 /\ exc' = r.exc
            ELSE IF RangeHasNext(Len(acc) + 1, num_samples)
            THEN /\ acc' = Append(acc, r.ret)
                 /\ UNCHANGED <<pc, ret, exc>>
            ELSE /\ acc' = <<>>
                 /\ pc' = "returned"
                 /\ ret' = Append(acc, r.ret)
                 /\ exc' = "None"
    /\ draws' = draws + 1
    /\ UNCHANGED <<config0, op, num_samples, dlg>>

\* The caller is done with the value (or the exception) and goes on; the
\* generator object is all that lasts from one call to the next.
Resume ==
    /\ pc = "returned"
    /\ pc' = "idle"
    /\ op' = "__init__"
    /\ ret' = NoValue
    /\ exc' = "None"
    /\ num_samples' = 0
    /\ draws' = 0
    /\ UNCHANGED <<generator, config0, acc, dlg>>

(***************************************************************************)
(* DialogueGenerator.generate_dialogue, statement by statement.  dlg.pc    *)
(* names the statement the call is about to run.                           *)
(***************************************************************************)
DialogueInit ==
    InitWith(<<"fatigue">>, <<"neck">>, [age |-> <<"20-30">>, gender |-> <<"male">>])

\* dialogue_generator.generate_dialogue(symptom_pool, max_symptoms, ...)
GenerateDialogueCall ==
    /\ dlg.pc = "START"
    /\ \E pool \in SymptomPools, m \in -1..MaxSymptoms,
          style \in LanguageStyles, se \in BOOLEAN, tone \in Tones :
         dlg' = [dlg EXCEPT !.pc = "SAMPLE_SYMPTOMS", !.symptom_pool = pool,
                            !.max_symptoms = m, !.language_style = style,
                            !.spelling_errors = se, !.tone = tone]
    /\ UNCHANGED gen_vars

\* symptoms = random.sample(symptom_pool, k=min(max_symptoms, len(symptom_pool)))
SampleSymptoms ==
    /\ dlg.pc = "SAMPLE_SYMPTOMS"
    /\ LET k == SampleSize(dlg.symptom_pool, dlg.max_symptoms) IN
       \/ /\ k < 0
          /\ dlg' = [dlg EXCEPT !.pc = "RAISED",
                                !.exc = random_sample(dlg.symptom_pool, k, <<>>).exc]
       \/ /\ k >= 0
          /\ \E idx \in SampleDraws(Len(dlg.symptom_pool), k) :
               LET r == random_sample(dlg.symptom_pool, k, idx) IN
               dlg' = [dlg EXCEPT !.pc = "BUILD_PROMPT", !.symptoms = r.ret]
    /\ UNCHANGED gen_vars

\* prompt = self.prompt_builder.build_prompt(symptoms, language_style, ...)
BuildPrompt ==
    /\ dlg.pc = "BUILD_PROMPT"
    /\ LET r == build_prompt(dlg.symptoms, dlg.language_style,
                             dlg.spelling_errors, dlg.tone) IN
       IF r.exc # "None"
       THEN dlg' = [dlg EXCEPT !.pc = "RAISED", !.exc = r.exc]
       ELSE dlg' = [dlg EXCEPT !.pc = "INVOKE_ORACLE", !.prompt = Str(r.ret)]
    /\ UNCHANGED gen_vars

\* The oracle is asked again when its text is shorter than the prompt.
InvokeOracle_Retry ==
    /\ dlg.pc = "INVOKE_ORACLE"
    /\ \E text \in DecodedTexts(dlg.prompt[1]) :
         dlg' = [dlg EXCEPT !.pc = IF Len(text) < Len(dlg.prompt[1])
                                   THEN "INVOKE_ORACLE" ELSE "STRIP_ECHO",
                            !.oracle_input = dlg.prompt,
                            !.oracle_calls = Min(@ + 1, 2),
                            !.generated_text = Str(text)]
    /\ UNCHANGED gen_vars

\* self.llm_wrapper.generate_text(prompt), up to the decoded output: the
\* tokenizer and the model are run once on the prompt; they return a text or
\* raise, and the exception leaves generate_dialogue as it is.
InvokeOracle ==
    /\ dlg.pc = "INVOKE_ORACLE"
    /\ \/ \E text \in DecodedTexts(dlg.prompt[1]) :
            dlg' = [dlg EXCEPT !.pc = "STRIP_ECHO",
                               !.oracle_input = dlg.prompt,
                               !.oracle_calls = @ + 1,
                               !.generated_text = Str(text)]
       \/ dlg' = [dlg EXCEPT !.pc = "RAISED",
                             !.oracle_input = dlg.prompt,
                             !.oracle_calls = @ + 1,
                             !.exc = "RuntimeError"]
    /\ UNCHANGED gen_vars

\* response = generated_text[len(prompt):].strip(); return response
StripEcho ==
    /\ dlg.pc = "STRIP_ECHO"
    /\ dlg' = [dlg EXCEPT !.pc = "DONE",
                          !.ret = Str(generate_text(dlg.prompt[1], dlg.generated_text[1]))]
    /\ UNCHANGED gen_vars

\* The caller is done with the dialogue (or the exception) and goes on.
DialogueResume ==
    /\ dlg.pc \in {"DONE", "RAISED"}
    /\ dlg' = DialogueIdle
    /\ UNCHANGED gen_vars

DialogueStep == SampleSymptoms \/ BuildPrompt \/ InvokeOracle \/ StripEcho

DialogueNext == GenerateDialogueCall \/ DialogueStep \/ DialogueResume

DialogueSpec == DialogueInit /\ [][DialogueNext]_vars

\* The statements of generate_dialogue run one after the other without
\* waiting for anything but the oracle, which may never return.
FairDialogueSpec ==
    /\ DialogueSpec
    /\ WF_vars(SampleSymptoms)
    /\ WF_vars(BuildPrompt)
    /\ WF_vars(StripEcho)

Next == GenerateMetadata \/ GenerateSymptom \/ Resume

Spec == Init /\ [][Next]_vars

DatasetNext ==
    \/ GenerateMetadata
    \/ GenerateSymptom
    \/ GenerateDatasetCall
    \/ GenerateDatasetIter
    \/ Resume

DatasetSpec == DatasetInit /\ [][DatasetNext]_vars

RecordNext ==
    \/ GenerateMetadata
    \/ GenerateSymptom
    \/ GenerateDatasetOfFew
    \/ GenerateDatasetIter
    \/ Resume

RecordSpec == RecordInit /\ [][RecordNext]_vars

(***************************************************************************)
(* Properties of SymptomDataGenerator.                                     *)
(***************************************************************************)
ReturnedFrom(method) == pc = "returned" /\ op = method /\ exc = "None"

\* The occurrences in text of the strings of vocabulary: <<position, word>>.
Occurrences(text, vocabulary) ==
    {<<i, w>> \in (1..Len(text)) \X vocabulary :
        /\ Len(w) > 0
        /\ i + Len(w) - 1 <= Len(text)
        /\ SubSeq(text, i, i + Len(w) - 1) = w}

\* C1: a record of generate_symptom labelled "fatigue" has no body part of
\* the configured vocabulary in its text, and a record with any other label
\* has exactly one, whichever template was drawn (both vocabularies
\* non-empty).
C1_BodyPartByLabel ==
    (/\ ReturnedFrom("generate_symptom")
     /\ config0[1] # <<>>
     /\ config0[2] # <<>>)
    => LET n == Cardinality(Occurrences(ret.text, Range(config0[2]))) IN
       IF ret.label = "fatigue" THEN n = 0 ELSE n = 1

\* The record r is well formed for the configuration handed to __init__.
RecordOK(r) ==
    /\ r.label \in Range(config0[1])
    /\ r.metadata.severity \in {"mild", "moderate", "severe"}
    /\ r.metadata.age \in Range(config0[3].age)
    /\ r.metadata.gender \in Range(config0[3].gender)
    /\ \E k \in 1..12 : r.metadata.duration = ToString(k) \o " weeks"

\* C2: every record generate_symptom returns, and every record of the list
\* generate_dataset builds and returns, has its label in the configured
\* symptom list, a severity among mild, moderate, severe, an age and a
\* gender of the configured lists and a duration "<k> weeks", 1 <= k <= 12.
C2_RecordWellFormed ==
    /\ ReturnedFrom("generate_symptom") => RecordOK(ret)
    /\ \A i \in 1..Len(acc) : RecordOK(acc[i])
    /\ ReturnedFrom("generate_dataset") => \A i \in 1..Len(ret) : RecordOK(ret[i])

C2_Witness ==
    /\ ReturnedFrom("generate_dataset")
    /\ Len(ret) = 1
    /\ ret[1].label = "lump"
    /\ ret[1].metadata.duration = "12 weeks"
    /\ ret[1].metadata.gender = "female"
    /\ ret[1].metadata.age = "30-40"

\* C5: generate_symptom fails and produces no record whenever the symptom
\* list or the body-part list is empty, whatever symptom is drawn ("fatigue"
\* with an empty body-part list as well).  The failure is read as any
\* exception: the code has no ConfigError class, and what it raises on an
\* empty list is random.choice's IndexError.
C5_EmptyConfigFails ==
    (/\ pc = "returned"
     /\ op = "generate_symptom"
     /\ (config0[1] = <<>> \/ config0[2] = <<>>))
    => exc # "None"

\* x is a value generate_symptom may return on the generator as it is: a
\* symptom of the list, metadata of the four draws, and the text of
\* generate_description for them, with a body part of the list unless the
\* symptom is "fatigue".
IsSymptomResult(x) ==
    /\ x.label \in Range(generator.symptom_list)
    /\ x.metadata.age \in Range(generator.demographics.age)
    /\ x.metadata.gender \in Range(generator.demographics.gender)
    /\ x.metadata.severity \in Range(Severities)
    /\ \E k \in randint(MinWeeks, MaxWeeks) :
         x.metadata.duration = ToString(k) \o " weeks"
    /\ \E b \in IF x.label = "fatigue" THEN {None}
                ELSE {Str(p) : p \in Range(generator.body_parts)},
          t \in 1..4 :
         x.text = generate_description(x.label, b, x.metadata, t)

ValidConfig ==
    /\ config0[1] # <<>> /\ config0[2] # <<>>
    /\ config0[3].age # <<>> /\ config0[3].gender # <<>>

\* A generate_dataset(n) call that has ended, n >= 0: it has returned unless
\* a list of the configuration is empty and n > 0; the list returned has n
\* elements and n symptoms were drawn for it.
C7_Returned ==
    (pc = "returned" /\ op = "generate_dataset" /\ num_samples >= 0)
    => /\ (ValidConfig \/ num_samples = 0) => exc = "None"
       /\ exc = "None" => (Len(ret) = num_samples /\ draws = num_samples)

\* A turn of the comprehension that does not raise puts one value of
\* generate_symptom after the values of the turns before it.
C7_InOrder ==
    (pc = "comprehension" /\ op' = "generate_dataset" /\ exc' = "None")
    => LET out == IF pc' = "returned" THEN ret' ELSE acc' IN
       /\ Len(out) = Len(acc) + 1
       /\ SubSeq(out, 1, Len(acc)) = acc
       /\ IsSymptomResult(out[Len(out)])
       /\ draws' = draws + 1

\* C7: generate_dataset(n) returns exactly n records for every n >= 0, each
\* one a value of generate_symptom, put after the records generated before
\* it; for n = 0 it returns the empty list, without error and without
\* drawing a symptom.
C7_ExactlyNInOrder == [][C7_InOrder /\ C7_Returned']_vars

C7_Witness ==
    /\ ReturnedFrom("generate_dataset")
    /\ num_samples = 2
    /\ Len(ret) = 2
    /\ ret[1].metadata.severity = "mild"
    /\ ret[2].metadata.severity = "severe"

\* C10: after any sequence of generate_metadata, generate_symptom and
\* generate_dataset calls, in the middle of one as well, the generator holds
\* the symptom list, the body-part list and the demographics it was given.
C10_ConfigUnchanged ==
    generator = SymptomDataGenerator(config0[1], config0[2], config0[3])

C10_Witness ==
    /\ ReturnedFrom("generate_dataset")
    /\ Len(ret) = 2
    /\ generator.symptom_list = <<"fatigue", "pain">>

(***************************************************************************)
(* Properties of DialogueGenerator.generate_dialogue.                      *)
(***************************************************************************)
Sampled == dlg.pc \in {"BUILD_PROMPT", "INVOKE_ORACLE", "STRIP_ECHO", "DONE"}

Count(seq, x) == Cardinality({i \in 1..Len(seq) : seq[i] = x})

\* C3: when the oracle's text is shorter than the prompt, generate_dialogue
\* ends with an error handed to its caller and returns no string, the empty
\* one included.  The error is read as any exception (the code has no
\* OracleError class), and the call as one that drew a symptom.
C3_ShortTextRaises ==
    (/\ dlg.pc \in {"DONE", "RAISED"}
     /\ dlg.symptoms # <<>>
     /\ dlg.generated_text # Unassigned
     /\ Len(dlg.generated_text[1]) < Len(dlg.prompt[1]))
    => dlg.pc = "RAISED"

\* C4 as claimed: for a non-empty pool, with names occurring twice or not,
\* and a positive max_symptoms, the drawn subset holds no name twice, only
\* names of the pool, and no more than min(max_symptoms, |pool|) of them.
C4_NoNameTwice ==
    (Sampled /\ dlg.symptom_pool # <<>> /\ dlg.max_symptoms > 0)
    => /\ \A x \in Range(dlg.symptoms) : Count(dlg.symptoms, x) = 1
       /\ Range(dlg.symptoms) \subseteq Range(dlg.symptom_pool)
       /\ Len(dlg.symptoms) <= Min(dlg.max_symptoms, Len(dlg.symptom_pool))

\* C4 amended: for a non-empty pool and a positive max_symptoms, the drawn
\* subset holds no name more often than the pool holds it (so no name twice
\* when the names of the pool are distinct), only names of the pool, and no
\* more than min(max_symptoms, |pool|) of them.
C4_NoNameMoreOftenThanInPool ==
    (Sampled /\ dlg.symptom_pool # <<>> /\ dlg.max_symptoms > 0)
    => /\ \A x \in Range(dlg.symptoms) :
            Count(dlg.symptoms, x) <= Count(dlg.symptom_pool, x)
       /\ Range(dlg.symptoms) \subseteq Range(dlg.symptom_pool)
       /\ Len(dlg.symptoms) <= Min(dlg.max_symptoms, Len(dlg.symptom_pool))

C4_Witness ==
    /\ dlg.pc = "BUILD_PROMPT"
    /\ dlg.symptom_pool = <<Text("fièvre"), Text("toux"), Text("vertiges")>>
    /\ dlg.max_symptoms = 2
    /\ dlg.symptoms = <<Text("vertiges"), Text("fièvre")>>

AllWhitespace(s) == \A i \in 1..Len(s) : s[i] \in Whitespace

\* r is s without its leading and trailing whitespace.
IsStripped(r, s) ==
    /\ \E i, j \in 0..Len(s) :
         /\ i + Len(r) + j = Len(s)
         /\ AllWhitespace(SubSeq(s, 1, i))
         /\ SubSeq(s, i + 1, i + Len(r)) = r
         /\ AllWhitespace(SubSeq(s, i + Len(r) + 1, Len(s)))
    /\ Len(r) > 0 =>
         /\ r[1] \notin Whitespace
         /\ r[Len(r)] \notin Whitespace

\* C6: when the oracle's text is the prompt followed by a suffix,
\* generate_dialogue returns the suffix without its leading and trailing
\* whitespace; the prompt is the one built from the drawn symptoms and sent.
C6_EchoStripped ==
    dlg.pc = "DONE" =>
      /\ dlg.oracle_input = Str(build_prompt(dlg.symptoms, dlg.language_style,
                                             dlg.spelling_errors, dlg.tone).ret)
      /\ LET text == dlg.generated_text[1] IN
         \A n \in 0..Len(text) :
           LET suffix == SubSeq(text, n + 1, Len(text)) IN
           text = dlg.oracle_input[1] \o suffix
               => IsStripped(dlg.ret[1], suffix)

C6_Witness ==
    /\ dlg.pc = "DONE"
    /\ dlg.generated_text = Str(dlg.prompt[1] \o <<8239>> \o Text("Aïe.") \o <<8239>>)
    /\ dlg.ret = Str(Text("Aïe."))

\* C8: build_prompt fails with ValueError on an empty symptoms list, so no
\* prompt of an empty list is built or sent to the oracle, also when
\* generate_dialogue draws no symptom.
C8_NoPromptOfNoSymptoms ==
    (dlg.pc \in {"INVOKE_ORACLE", "STRIP_ECHO", "DONE"} \/ dlg.oracle_calls > 0)
    => dlg.symptoms # <<>>

PhaseOrder ==
    {<<"START", "SAMPLE_SYMPTOMS">>, <<"SAMPLE_SYMPTOMS", "BUILD_PROMPT">>,
     <<"BUILD_PROMPT", "INVOKE_ORACLE">>, <<"INVOKE_ORACLE", "STRIP_ECHO">>,
     <<"STRIP_ECHO", "DONE">>}

\* A step of a call goes to the next phase, or out of the call by an
\* exception; a phase is left by the step that enters the next.
C9_NextPhase ==
    \/ <<dlg.pc, dlg'.pc>> \in PhaseOrder
    \/ dlg.pc \in {"SAMPLE_SYMPTOMS", "INVOKE_ORACLE"} /\ dlg'.pc = "RAISED"
    \/ dlg.pc \in {"DONE", "RAISED"} /\ dlg'.pc = "START"

C9_OracleOnce ==
    /\ dlg.oracle_calls =
         IF \/ dlg.pc \in {"STRIP_ECHO", "DONE"}
            \/ dlg.pc = "RAISED" /\ dlg.exc = "RuntimeError"
         THEN 1 ELSE 0
    /\ dlg.oracle_calls = 1 =>
         dlg.oracle_input = Str(build_prompt(dlg.symptoms, dlg.language_style,
                                             dlg.spelling_errors, dlg.tone).ret)

\* C9: a call of generate_dialogue goes through SAMPLE_SYMPTOMS,
\* BUILD_PROMPT, INVOKE_ORACLE, STRIP_ECHO, DONE in this order, none skipped
\* or repeated; the oracle is invoked once, on the prompt built from the
\* drawn symptoms; a call that can draw its symptoms reaches the oracle, and
\* once the oracle has returned the call reaches DONE.
C9_PhasesInOrder ==
    /\ [][C9_NextPhase]_vars
    /\ [] C9_OracleOnce
    /\ (dlg.pc = "SAMPLE_SYMPTOMS" /\ dlg.max_symptoms >= 0) ~> (dlg.pc = "INVOKE_ORACLE")
    /\ (dlg.pc = "STRIP_ECHO") ~> (dlg.pc = "DONE")

C9_Witness ==
    /\ dlg.pc = "DONE"
    /\ dlg.oracle_calls = 1
    /\ Len(dlg.symptoms) = 3

====
